---- MODULE Spec2Model ----
(***************************************************************************)
(* CookieProf (cookieprof.py): the polling engine of a load-balancer       *)
(* probe.  Every site has a PollWindow that keeps one session-less and,    *)
(* with --session, one session-affine GET in flight; a reactor timer       *)
(* (run_timeouts) sweeps all PollWindows every TIMEOUT seconds.            *)
(*                                                                         *)
(* Time is the wall clock in whole seconds.  A Deferred returned by        *)
(* agent.request is a record whose state is "inflight" until its callback  *)
(* chain has run ("fired": cbResponse/cbSessResponse ran, "failed":        *)
(* cbError ran on a transport failure, "cancelled": Deferred.cancel() ran  *)
(* the errback).  A fired, failed or cancelled Deferred never runs its     *)
(* callbacks again.                                                        *)
(***************************************************************************)
EXTENDS Integers, Sequences, FiniteSets, TLC

\* ---------------------------------------------------------------- bounds
MaxTime == 30        \* the wall clock is observed over 0..MaxTime seconds
TickStep == 10       \* the wall clock advances in steps of TickStep seconds
MaxEvents == 2       \* the servers answer or fail at most MaxEvents requests in total
MaxClock == 1        \* a StatTracker driven on its own is observed over 0..MaxClock seconds

\* ------------------------------------------------------ program constants
TIMEOUT == 10
DaySeconds == 86400  \* datetime.timedelta normalises seconds into 0..86399

\* ------------------------------------------------------------- sentinels
NoTime == -1                 \* None where a datetime is expected / attribute not set
NoRef == 0                   \* attribute not set where an object reference is expected
NoHook == <<"<None>">>       \* opts.sess_hook is None
NoRedir == <<>>              \* StatTracker.redir_to is None
NoCook == <<>>               \* cook=None; a jar j is passed as <<j>>
NoHeaders == <<>>            \* headr=None, also a response without any header

\* ------------------------------------------------------------ input sets
\* strings are sequences of characters
CookieNames == {<<"l">>}
CookieValues == {<<"a">>, <<"b">>}
Cookies == [name : CookieNames, value : CookieValues]
\* what the CookieAgent extracts from one response: the load balancer sets its
\* cookie on every response, one cookie per name
SetCookieSets == {S \in SUBSET Cookies \ {{}} : \A c, d \in S : c.name = d.name => c = d}
HookOpts == {NoHook, <<"l", ":", "a">>}
StatusCodes == {200, 302, 304, 308}
HeaderSets == {NoHeaders, ("Location" :> <<"alt">>)}
Responses == [code : StatusCodes, headers : HeaderSets, cookies : SetCookieSets]
\* the command lines explored: -s, -k and the number of URLs; a hook is explored
\* with -s, several URLs without -s
SiteCounts == {1, 2}
Configs == {c \in [session : BOOLEAN, sess_hook : HookOpts, nsites : SiteCounts] :
               /\ c.sess_hook # NoHook => c.session
               /\ c.nsites > 1 => (~c.session /\ c.sess_hook = NoHook)}

\* ------------------------------------------------------------- variables
VARIABLES
    opts,      \* parsed options: [session, sess_hook]
    polls,     \* the list polls of PollWindow objects
    clock,     \* datetime.now(), whole seconds
    sweep,     \* due time of the pending reactor.callLater(TIMEOUT, run_timeouts), NoTime if none
    running,   \* the reactor is running (FALSE after reactor.stop())
    nevents    \* number of responses and transport failures so far

vars == <<opts, polls, clock, sweep, running, nevents>>

\* ------------------------------------------------------------ str.split
RECURSIVE SplitFrom(_, _, _)
SplitFrom(s, i, cur) ==
    IF i > Len(s) THEN <<cur>>
    ELSE IF s[i] = ":" THEN <<cur>> \o SplitFrom(s, i + 1, <<>>)
    ELSE SplitFrom(s, i + 1, Append(cur, s[i]))

Split(s) == SplitFrom(s, 1, <<>>)

\* timedelta.seconds of a difference of d seconds
Seconds(d) == d % DaySeconds

RECURSIVE SumSeq(_)
SumSeq(s) == IF s = <<>> THEN 0 ELSE s[1] + SumSeq(Tail(s))

\* -------------------------------------------------------- CookieTracker
CookieTrackerInit(interesting_key) ==
    [ikey |-> interesting_key, no_sess |-> <<>>, sess |-> <<>>, full_print |-> FALSE]

\* CookieTracker.hit keeping only the last sighting of a value
\* (stats[c.value] = [datetime.now()])
DictHitLastOnly(d, jar, now) ==
    LET names == DOMAIN d \cup {c.name : c \in jar}
        row(n) == IF n \in DOMAIN d THEN d[n] ELSE <<>>
        vals(n) == DOMAIN row(n) \cup {c.value : c \in {x \in jar : x.name = n}}
        cell(n, v) == IF v \in DOMAIN row(n) THEN row(n)[v] ELSE <<>>
    IN  [n \in names |->
            [v \in vals(n) |->
                IF [name |-> n, value |-> v] \in jar
                THEN <<now>> ELSE cell(n, v)]]

\* the two-level dict after the for loop of CookieTracker.hit
DictHit(d, jar, now) ==
    LET names == DOMAIN d \cup {c.name : c \in jar}
        row(n) == IF n \in DOMAIN d THEN d[n] ELSE <<>>
        vals(n) == DOMAIN row(n) \cup {c.value : c \in {x \in jar : x.name = n}}
        cell(n, v) == IF v \in DOMAIN row(n) THEN row(n)[v] ELSE <<>>
    IN  [n \in names |->
            [v \in vals(n) |->
                IF [name |-> n, value |-> v] \in jar
                THEN Append(cell(n, v), now) ELSE cell(n, v)]]

CookieTrackerHit(cstats, cook, headr, sess, now) ==
    IF cook = NoCook THEN cstats
    ELSE IF sess THEN [cstats EXCEPT !.sess = DictHit(@, cook[1], now)]
    ELSE [cstats EXCEPT !.no_sess = DictHit(@, cook[1], now)]

\* ----------------------------------------------------------- StatTracker
StatTrackerInit(interesting_key) ==
    [cstats |-> CookieTrackerInit(interesting_key),
     responses |-> 0,
     gaps |-> <<>>,
     reqdts |-> <<>>,
     avg_gap |-> [num |-> 0, den |-> 1],
     long_gap_dt |-> NoTime,
     longest_gap |-> 0,
     redir_to |-> NoRedir,
     full_print |-> FALSE]

\* StatTracker.hit with the redirect target reset by every hit that is not a
\* redirect (self.redir_to = headr['Location'] if redir else None)
StatTrackerHitClearsRedirect(stats, reqdt, cook, sess, headr, redir, now) ==
    LET s1 == [stats EXCEPT !.responses = @ + 1]
    IN  IF redir /\ "Location" \notin DOMAIN headr
        THEN [stats |-> s1, raised |-> TRUE]
        ELSE
        LET s2 == [s1 EXCEPT !.redir_to = IF redir THEN headr["Location"] ELSE NoRedir]
            gap == Seconds(now - reqdt)
            s3 == IF gap > s2.longest_gap
                  THEN [s2 EXCEPT !.long_gap_dt = reqdt, !.longest_gap = gap]
                  ELSE s2
            g == Append(s3.gaps, gap)
            s4 == [s3 EXCEPT !.gaps = g, !.reqdts = Append(@, reqdt),
                             !.avg_gap = [num |-> SumSeq(g), den |-> Len(g)]]
            s5 == IF ~redir
                  THEN [s4 EXCEPT !.cstats = CookieTrackerHit(@, cook, headr, sess, now)]
                  ELSE s4
        IN  [stats |-> s5, raised |-> FALSE]

\* StatTracker.hit without the test of the redirect flag before the cookie
\* statistics (self.cstats.hit is called on every hit)
StatTrackerHitCountsRedirectCookies(stats, reqdt, cook, sess, headr, redir, now) ==
    LET s1 == [stats EXCEPT !.responses = @ + 1]
    IN  IF redir /\ "Location" \notin DOMAIN headr
        THEN [stats |-> s1, raised |-> TRUE]
        ELSE
        LET s2 == IF redir THEN [s1 EXCEPT !.redir_to = headr["Location"]] ELSE s1
            gap == Seconds(now - reqdt)
            s3 == IF gap > s2.longest_gap
                  THEN [s2 EXCEPT !.long_gap_dt = reqdt, !.longest_gap = gap]
                  ELSE s2
            g == Append(s3.gaps, gap)
            s4 == [s3 EXCEPT !.gaps = g, !.reqdts = Append(@, reqdt),
                             !.avg_gap = [num |-> SumSeq(g), den |-> Len(g)]]
            s5 == [s4 EXCEPT !.cstats = CookieTrackerHit(@, cook, headr, sess, now)]
        IN  [stats |-> s5, raised |-> FALSE]

\* StatTracker.hit; raised = TRUE when headr['Location'] raises KeyError, which
\* leaves the increment of responses behind and nothing else; reqdts is a
\* history field, the reqdt argument of every gap of self.gaps
StatTrackerHit(stats, reqdt, cook, sess, headr, redir, now) ==
    LET s1 == [stats EXCEPT !.responses = @ + 1]
    IN  IF redir /\ "Location" \notin DOMAIN headr
        THEN [stats |-> s1, raised |-> TRUE]
        ELSE
        LET s2 == IF redir THEN [s1 EXCEPT !.redir_to = headr["Location"]] ELSE s1
            gap == Seconds(now - reqdt)
            s3 == IF gap > s2.longest_gap
                  THEN [s2 EXCEPT !.long_gap_dt = reqdt, !.longest_gap = gap]
                  ELSE s2
            g == Append(s3.gaps, gap)
            s4 == [s3 EXCEPT !.gaps = g, !.reqdts = Append(@, reqdt),
                             !.avg_gap = [num |-> SumSeq(g), den |-> Len(g)]]
            s5 == IF ~redir
                  THEN [s4 EXCEPT !.cstats = CookieTrackerHit(@, cook, headr, sess, now)]
                  ELSE s4
        IN  [stats |-> s5, raised |-> FALSE]

\* StatTracker.__str__ without the CookieTracker report
StatTrackerStr(stats) ==
    IF stats.redir_to # NoRedir
    THEN <<"!! Redirection to ", stats.redir_to>>
    ELSE <<"Total hits: ", stats.responses,
           "Average response time: ", stats.avg_gap,
           "Slowest response time: ", stats.longest_gap,
           "Slowest response start: ", stats.long_gap_dt>>

\* ------------------------------------------------------------- Requestor
\* A PollWindow record pw carries the heap of its CookieJar objects (pw.jars,
\* a jar is referred to by its index) and of its Deferreds (pw.reqs).

\* Requestor.get_fresh: a new, empty CookieJar is allocated
GetFresh(pw) == [pw EXCEPT !.jars = Append(@, {})]

FreshId(pw) == Len(pw.jars) + 1

\* Requestor.__init__ on the PollWindow pw, stored in attribute which
RequestorInit(pw, which, sess, hook) ==
    LET base == [session |-> sess, hook |-> <<<<>>, <<>>>>, hook_ok |-> TRUE,
                 sess_cook |-> NoRef, r |-> NoRef]
    IN  IF sess
        THEN LET rq == [base EXCEPT !.sess_cook = FreshId(pw)]
                 rq2 == IF hook # NoHook
                        THEN [rq EXCEPT !.hook = Split(hook), !.hook_ok = FALSE]
                        ELSE rq
             IN  [GetFresh(pw) EXCEPT ![which] = rq2]
        ELSE [pw EXCEPT ![which] = base]

\* Requestor.get_stale without the latch (if self.session:), the hook is looked
\* for on every poll
GetStaleNoLatch(pw, which) ==
    LET rq == pw[which]
    IN  IF rq.session
        THEN IF \E c \in pw.jars[rq.sess_cook] : <<c.name, c.value>> = rq.hook
             THEN [pw EXCEPT ![which].hook_ok = TRUE]
             ELSE [GetFresh(pw) EXCEPT ![which].sess_cook = FreshId(pw)]
        ELSE pw

\* Requestor.get_stale on pw[which]; the jar to use is pw'[which].sess_cook
GetStale(pw, which) ==
    LET rq == pw[which]
    IN  IF rq.session /\ ~rq.hook_ok
        THEN IF \E c \in pw.jars[rq.sess_cook] : <<c.name, c.value>> = rq.hook
             THEN [pw EXCEPT ![which].hook_ok = TRUE]
             ELSE [GetFresh(pw) EXCEPT ![which].sess_cook = FreshId(pw)]
        ELSE pw

\* Requestor.request with the session-less jar allocated once and kept (the jar
\* of the previous request is passed to the CookieAgent again)
RequestorRequestKeepsJar(pw, which, cb_sess, dt, by) ==
    LET keep == ~pw[which].session /\ pw[which].r # NoRef
        pw1 == IF pw[which].session THEN GetStale(pw, which)
               ELSE IF keep THEN pw ELSE GetFresh(pw)
        cjar == IF pw[which].session THEN pw1[which].sess_cook
                ELSE IF keep THEN pw.reqs[pw[which].r].cjar ELSE FreshId(pw)
        d == [sess |-> cb_sess, cjar |-> cjar, calldt |-> dt, state |-> "inflight",
              by |-> by, cb_hits |-> 0, sw_hits |-> 0, jar_at_issue |-> pw1.jars[cjar]]
    IN  [pw1 EXCEPT !.reqs = Append(@, d), ![which].r = Len(pw1.reqs) + 1]

\* Requestor.request on pw[which]: cb_sess tells which callback is attached
\* (cbSessResponse or cbResponse); by is a history field (who scheduled it)
RequestorRequest(pw, which, cb_sess, dt, by) ==
    LET pw1 == IF pw[which].session THEN GetStale(pw, which) ELSE GetFresh(pw)
        cjar == IF pw[which].session THEN pw1[which].sess_cook ELSE FreshId(pw)
        d == [sess |-> cb_sess, cjar |-> cjar, calldt |-> dt, state |-> "inflight",
              by |-> by, cb_hits |-> 0, sw_hits |-> 0, jar_at_issue |-> pw1.jars[cjar]]
    IN  [pw1 EXCEPT !.reqs = Append(@, d), ![which].r = Len(pw1.reqs) + 1]

\* ------------------------------------------------------------ PollWindow
SchedCall(pw, now, by) ==
    RequestorRequest([pw EXCEPT !.last_call = now], "q", FALSE, now, by)

SessSchedCall(pw, now, by) ==
    RequestorRequest([pw EXCEPT !.slast_call = now], "sq", TRUE, now, by)

PollWindowInit(site, cook, o) ==
    LET p0 == [session |-> o.session, site |-> site,
               stats |-> StatTrackerInit(cook),
               q |-> NoRef, sq |-> NoRef,
               last_call |-> NoTime, slast_call |-> NoTime,
               jars |-> <<>>, reqs |-> <<>>]
        p1 == RequestorInit(p0, "q", FALSE, o.sess_hook)
        p2 == IF o.session THEN RequestorInit(p1, "sq", TRUE, o.sess_hook) ELSE p1
        p3 == SchedCall(p2, 0, "init")
    IN  IF o.session THEN SessSchedCall(p3, 0, "init") ELSE p3

\* Deferred.cancel(): runs the errback chain (cbError: pass) of a Deferred that
\* has not fired yet, nothing otherwise
Cancel(pw, id) ==
    IF pw.reqs[id].state = "inflight"
    THEN [pw EXCEPT !.reqs[id].state = "cancelled"]
    ELSE pw

\* PollWindow.cbError
CbError(pw, id) == pw

\* PollWindow.hit without the early return of a session waiting for its hook
PollWindowHitNoGate(pw, id, response, sess, now) ==
    LET is_redir == response.code \in 300..307
        d == pw.reqs[id]
        h == StatTrackerHit(pw.stats, d.calldt, <<pw.jars[d.cjar]>>, sess,
                            response.headers, is_redir, now)
    IN  [pw |-> [pw EXCEPT !.stats = h.stats, !.reqs[id].cb_hits = @ + 1],
         raised |-> h.raised]

\* PollWindow.hit with the hook looked for in the jar of the response itself, so
\* that the response that brings the hook cookie is counted
PollWindowHitEagerGate(pw, id, response, sess, now) ==
    LET is_redir == response.code \in 300..307
        d == pw.reqs[id]
    IN  IF /\ sess
           /\ ~pw.sq.hook_ok
           /\ ~\E c \in pw.jars[d.cjar] : <<c.name, c.value>> = pw.sq.hook
        THEN [pw |-> pw, raised |-> FALSE]
        ELSE LET h == StatTrackerHit(pw.stats, d.calldt, <<pw.jars[d.cjar]>>, sess,
                                     response.headers, is_redir, now)
             IN  [pw |-> [pw EXCEPT !.stats = h.stats, !.reqs[id].cb_hits = @ + 1],
                  raised |-> h.raised]

\* PollWindow.hit for the Deferred id
PollWindowHit(pw, id, response, sess, now) ==
    LET is_redir == response.code \in 300..307
        d == pw.reqs[id]
    IN  IF sess /\ ~pw.sq.hook_ok
        THEN [pw |-> pw, raised |-> FALSE]
        ELSE LET h == StatTrackerHit(pw.stats, d.calldt, <<pw.jars[d.cjar]>>, sess,
                                     response.headers, is_redir, now)
             IN  [pw |-> [pw EXCEPT !.stats = h.stats, !.reqs[id].cb_hits = @ + 1],
                  raised |-> h.raised]

\* PollWindow.cbResponse; an exception of hit goes to the errback cbError
CbResponse(pw, id, response, now) ==
    LET h == PollWindowHit(pw, id, response, FALSE, now)
    IN  IF h.raised THEN CbError(h.pw, id) ELSE SchedCall(h.pw, now, "callback")

\* PollWindow.cbSessResponse
CbSessResponse(pw, id, response, now) ==
    LET h == PollWindowHit(pw, id, response, TRUE, now)
    IN  IF h.raised THEN CbError(h.pw, id) ELSE SessSchedCall(h.pw, now, "callback")

\* PollWindow._timeout rescheduling the path that stalled (sess_sched_call for
\* the session-affine Requestor)
TimeoutOneSamePath(pw, last, which, now) ==
    LET delt == now - last
        id == pw[which].r
    IN  IF Seconds(delt) > TIMEOUT
        THEN LET c == Cancel(pw, id)
                 h == StatTrackerHit(c.stats, last, NoCook, FALSE, NoHeaders, FALSE, now)
                 c2 == [c EXCEPT !.stats = h.stats, !.reqs[id].sw_hits = @ + 1]
             IN  IF which = "sq" THEN SessSchedCall(c2, now, "sweep")
                 ELSE SchedCall(c2, now, "sweep")
        ELSE pw

\* PollWindow._timeout cancelling at an age of TIMEOUT already
\* (if delt.seconds >= TIMEOUT:)
TimeoutOneAtTimeout(pw, last, which, now) ==
    LET delt == now - last
        id == pw[which].r
    IN  IF Seconds(delt) >= TIMEOUT
        THEN LET c == Cancel(pw, id)
                 h == StatTrackerHit(c.stats, last, NoCook, FALSE, NoHeaders, FALSE, now)
                 c2 == [c EXCEPT !.stats = h.stats, !.reqs[id].sw_hits = @ + 1]
             IN  SchedCall(c2, now, "sweep")
        ELSE pw

\* PollWindow._timeout(last, rq) with rq = pw[which]
TimeoutOne(pw, last, which, now) ==
    LET delt == now - last
        id == pw[which].r
    IN  IF Seconds(delt) > TIMEOUT
        THEN LET c == Cancel(pw, id)
                 h == StatTrackerHit(c.stats, last, NoCook, FALSE, NoHeaders, FALSE, now)
                 c2 == [c EXCEPT !.stats = h.stats, !.reqs[id].sw_hits = @ + 1]
             IN  SchedCall(c2, now, "sweep")
        ELSE pw

\* PollWindow.timeout; raised = TRUE when self.slast_call raises AttributeError
\* (the attribute is only set by sess_sched_call)
Timeout(pw, now) ==
    LET p1 == TimeoutOne(pw, pw.last_call, "q", now)
    IN  IF p1.slast_call = NoTime
        THEN [pw |-> p1, raised |-> TRUE]
        ELSE [pw |-> TimeoutOne(p1, p1.slast_call, "sq", now), raised |-> FALSE]

\* the for loop of run_timeouts from index i on; an exception ends it
RECURSIVE TimeoutLoop(_, _, _)
TimeoutLoop(ps, i, now) ==
    IF i > Len(ps) THEN [polls |-> ps, raised |-> FALSE]
    ELSE LET t == Timeout(ps[i], now)
         IN  IF t.raised
             THEN [polls |-> [ps EXCEPT ![i] = t.pw], raised |-> TRUE]
             ELSE TimeoutLoop([ps EXCEPT ![i] = t.pw], i + 1, now)

\* CookieAgent stores the cookies of a response in the jar of the request
SetCookies(jar, new) ==
    {c \in jar : \A n \in new : n.name # c.name} \cup new

\* ------------------------------------------------------------------ Init
Init ==
    /\ \E c \in Configs :
          /\ opts = [session |-> c.session, sess_hook |-> c.sess_hook]
          /\ polls = [p \in 1..c.nsites |-> PollWindowInit(p, <<"l">>, opts)]
    /\ clock = 0
    /\ sweep = TIMEOUT
    /\ running = TRUE
    /\ nevents = 0

\* --------------------------------------------------------------- actions
\* the wall clock advances
Tick ==
    /\ running
    /\ clock + TickStep <= MaxTime
    /\ clock' = clock + TickStep
    /\ UNCHANGED <<opts, polls, sweep, running, nevents>>

\* a response arrives for the Deferred id of site p: the CookieAgent fills the
\* jar, then the callback attached by Requestor.request runs
Respond(p, id, response) ==
    /\ running
    /\ nevents < MaxEvents
    /\ polls[p].reqs[id].state = "inflight"
    /\ LET d == polls[p].reqs[id]
           pw1 == [polls[p] EXCEPT !.jars[d.cjar] = SetCookies(@, response.cookies),
                                   !.reqs[id].state = "fired"]
       IN  polls' = [polls EXCEPT ![p] =
                        IF d.sess THEN CbSessResponse(pw1, id, response, clock)
                        ELSE CbResponse(pw1, id, response, clock)]
    /\ nevents' = nevents + 1
    /\ UNCHANGED <<opts, clock, sweep, running>>

\* the request of the Deferred id of site p fails in the transport: the
\* callback is skipped and the errback cbError runs
Fail(p, id) ==
    /\ running
    /\ polls[p].reqs[id].state = "inflight"
    /\ nevents < MaxEvents
    /\ polls' = [polls EXCEPT ![p] = CbError([@ EXCEPT !.reqs[id].state = "failed"], id)]
    /\ nevents' = nevents + 1
    /\ UNCHANGED <<opts, clock, sweep, running>>

\* the delayed call run_timeouts fires
RunTimeouts ==
    /\ running
    /\ sweep # NoTime
    /\ clock >= sweep
    /\ LET l == TimeoutLoop(polls, 1, clock)
       IN  /\ polls' = l.polls
           /\ sweep' = IF l.raised THEN NoTime ELSE clock + TIMEOUT
    /\ UNCHANGED <<opts, clock, running, nevents>>

\* SIGINT: fin_callback writes the log and stops the reactor
FinCallback ==
    /\ running
    /\ polls' = [p \in DOMAIN polls |-> [polls[p] EXCEPT !.stats.full_print = TRUE]]
    /\ running' = FALSE
    /\ UNCHANGED <<opts, clock, sweep, nevents>>

Next ==
    \/ Tick
    \/ \E p \in DOMAIN polls : \E id \in DOMAIN polls[p].reqs :
          \E response \in Responses : Respond(p, id, response)
    \/ \E p \in DOMAIN polls : \E id \in DOMAIN polls[p].reqs : Fail(p, id)
    \/ RunTimeouts
    \/ FinCallback

Spec == Init /\ [][Next]_vars

\* ------------------------------------------- a StatTracker on its own
\* StatTracker.hit is called by PollWindow with a reqdt that was read from the
\* clock earlier; here the tracker of one PollWindow is driven by a caller that
\* passes any reqdt around the present reading of the clock (after it when the
\* wall clock was stepped back in between), any jar and any flags.
Lags == {-1, 0, 1}           \* reqdt = now - lag
TrackerCookies == [name : {<<"l">>, <<"s">>}, value : {<<"a">>, <<"b">>}]
\* the cook argument: None, or a CookieJar of zero, one or two cookies
TrackerJars == {NoCook, <<{}>>, <<{[name |-> <<"l">>, value |-> <<"a">>]}>>,
                <<{[name |-> <<"l">>, value |-> <<"b">>]}>>,
                <<{[name |-> <<"l">>, value |-> <<"a">>],
                   [name |-> <<"s">>, value |-> <<"a">>]}>>}

TrackerInit ==
    /\ opts = [session |-> FALSE, sess_hook |-> NoHook]
    /\ polls = <<PollWindowInit(1, <<"l">>, opts)>>
    /\ clock = 0
    /\ sweep = NoTime
    /\ running = TRUE
    /\ nevents = 0

\* the wall clock advances by one second
TrackerTick ==
    /\ clock < MaxClock
    /\ clock' = clock + 1
    /\ UNCHANGED <<opts, polls, sweep, running, nevents>>

\* one call of StatTracker.hit; an exception is swallowed by the errback
TrackerHit(reqdt, cook, sess, headr, redir) ==
    /\ nevents < MaxEvents
    /\ reqdt >= 0
    /\ polls' = [polls EXCEPT ![1].stats =
                    StatTrackerHit(@, reqdt, cook, sess, headr, redir, clock).stats]
    /\ nevents' = nevents + 1
    /\ UNCHANGED <<opts, clock, sweep, running>>

TrackerNext ==
    \/ TrackerTick
    \/ \E lag \in Lags, cook \in TrackerJars, sess \in BOOLEAN,
          headr \in HeaderSets, redir \in BOOLEAN :
          TrackerHit(clock - lag, cook, sess, headr, redir)

TrackerSpec == TrackerInit /\ [][TrackerNext]_vars

\* ------------------------------------------------------- claim vocabulary
Sites == DOMAIN polls
Ids(p) == DOMAIN polls[p].reqs
Req(p, id) == polls[p].reqs[id]

\* the requests of site p in flight with the session-affine (sess = TRUE) or
\* the session-less callback attached
Outstanding(p, sess) ==
    {id \in Ids(p) : Req(p, id).state = "inflight" /\ Req(p, id).sess = sess}

\* no delayed call run_timeouts is overdue
NoSweepDue == sweep = NoTime \/ clock < sweep

\* this step is a pass of run_timeouts
SweepStep == sweep # NoTime /\ sweep' # sweep

\* this step runs the errback of the in-flight Deferred id of p on a transport failure
FailStep(p, id) ==
    /\ id \in Ids(p)
    /\ Req(p, id).state = "inflight"
    /\ polls'[p].reqs[id].state = "failed"

\* this step delivers a response to the in-flight Deferred id of p
RespondStep(p, id) ==
    /\ id \in Ids(p)
    /\ Req(p, id).state = "inflight"
    /\ polls'[p].reqs[id].state = "fired"

\* this step issues exactly one request for p, with the callback of mode sess
IssuesOne(p, sess) ==
    /\ Len(polls'[p].reqs) = Len(polls[p].reqs) + 1
    /\ polls'[p].reqs[Len(polls'[p].reqs)].sess = sess
    /\ polls'[p].reqs[Len(polls'[p].reqs)].state = "inflight"

\* ------------------------------------------------------------------- C1
\* C1: between callbacks every site has exactly one session-less request in
\* flight and, with session tracking, exactly one session-affine request.
C1_OneOutstandingPerMode ==
    running =>
        \A p \in Sites :
            /\ Cardinality(Outstanding(p, FALSE)) = 1
            /\ Cardinality(Outstanding(p, TRUE)) = IF opts.session THEN 1 ELSE 0

\* ------------------------------------------------------------------- C2
\* C2: in every configuration a request that never completes is cancelled by
\* the periodic sweep: once every sweep that is due has run, no request has
\* been in flight for two timeout periods or longer.
C2_StalledRequestIsCancelled ==
    (running /\ NoSweepDue) =>
        \A p \in Sites : \A id \in Ids(p) :
            Req(p, id).state = "inflight" => clock - Req(p, id).calldt < 2 * TIMEOUT

\* ------------------------------------------------------------------- C3
\* C3: every pass of the sweep arms the next pass and runs the timeout check
\* of every site, in every configuration.
C3_SweepRearms ==
    [][SweepStep =>
          /\ sweep' = clock + TIMEOUT
          /\ \A p \in Sites : polls'[p] = Timeout(polls[p], clock).pw]_vars

\* ------------------------------------------------------------------- C4
\* C4: an enabled mode left without a request in flight (after a transport
\* failure, a stall or a redirect) is given a new request of that mode: once
\* every sweep that is due has run, no enabled mode is without a request in
\* flight two timeout periods or longer after its last request was issued.
LastIssue(p, sess) ==
    LET T == {Req(p, id).calldt : id \in {i \in Ids(p) : Req(p, i).sess = sess}}
    IN  CHOOSE t \in T : \A u \in T : u <= t

C4_StoppedModeIsRescheduled ==
    (running /\ NoSweepDue) =>
        \A p \in Sites : \A sess \in {FALSE} \cup {opts.session} :
            Outstanding(p, sess) = {} => clock - LastIssue(p, sess) < 2 * TIMEOUT

\* ------------------------------------------------------------------- C5
\* C5: a transport failure is recorded at once as one hit without cookie data
\* and the request is rescheduled at that moment.
C5_FailureIsHitAndRescheduled ==
    [][\A p \in Sites : \A id \in Ids(p) :
          FailStep(p, id) =>
              /\ polls'[p].stats.responses = polls[p].stats.responses + 1
              /\ polls'[p].stats.cstats = polls[p].stats.cstats
              /\ IssuesOne(p, Req(p, id).sess)]_vars

\* ------------------------------------------------------------------- C6
\* C6: for one request the sweep and the callback exclude each other: a
\* cancelled request gets no hit from its callback, a request that completed
\* gets no miss from the sweep, and no request is counted by both.
C6_SweepAndCallbackExclusive ==
    \A p \in Sites : \A id \in Ids(p) :
        /\ Req(p, id).state = "cancelled" => Req(p, id).cb_hits = 0
        /\ Req(p, id).state \in {"fired", "failed"} => Req(p, id).sw_hits = 0
        /\ ~(Req(p, id).cb_hits > 0 /\ Req(p, id).sw_hits > 0)

\* ------------------------------------------------------------------- C7
\* the session-affine request id of p completes in this step while the hook
\* gate of p is not satisfied
GatedRespondStep(p, id) ==
    /\ RespondStep(p, id)
    /\ Req(p, id).sess
    /\ ~polls[p].sq.hook_ok

\* C7 (as claimed): while the hook gate is not satisfied every completed
\* session-affine response is recorded for latency: responses increases by
\* one and one latency is appended.
C7_GatedResponseCountsLatency ==
    [][\A p \in Sites : \A id \in Ids(p) :
          GatedRespondStep(p, id) =>
              /\ polls'[p].stats.responses = polls[p].stats.responses + 1
              /\ Len(polls'[p].stats.gaps) = Len(polls[p].stats.gaps) + 1]_vars

\* C7 (amended): while the hook gate is not satisfied a completed
\* session-affine response is not recorded at all: the StatTracker (responses,
\* latencies, cookie accounting) is left as it was.
C7_GatedResponseNotRecorded ==
    [][\A p \in Sites : \A id \in Ids(p) :
          GatedRespondStep(p, id) => polls'[p].stats = polls[p].stats]_vars

\* a session-affine response has completed without a hit of its callback
C7_Witness ==
    \E p \in Sites : \E id \in Ids(p) :
        /\ Req(p, id).sess
        /\ Req(p, id).state = "fired"
        /\ Req(p, id).cb_hits = 0
        /\ polls[p].stats.responses = 0

\* ------------------------------------------------------------------- C8
\* C8: while the hook gate is not satisfied no step changes the sessioned
\* mapping of the CookieTracker, the step of the response whose cookies match
\* the hook included.
C8_GatedSessMappingUnchanged ==
    [][\A p \in Sites :
          (opts.session /\ ~polls[p].sq.hook_ok) =>
              polls'[p].stats.cstats.sess = polls[p].stats.cstats.sess]_vars

\* the jar of the session Requestor of p holds the hook cookie
HookHeld(p) ==
    \E c \in polls[p].jars[polls[p].sq.sess_cook] :
        <<c.name, c.value>> = polls[p].sq.hook

\* the response that brought the hook cookie has completed and opened the gate,
\* and the sessioned mapping is still empty
C8_Witness ==
    \E p \in Sites : \E id \in Ids(p) :
        /\ opts.sess_hook # NoHook
        /\ Req(p, id).sess
        /\ Req(p, id).state = "fired"
        /\ Req(p, id).cb_hits = 0
        /\ Req(p, id).cjar = polls[p].sq.sess_cook
        /\ HookHeld(p)
        /\ polls[p].sq.hook_ok
        /\ polls[p].stats.cstats.sess = <<>>

\* ------------------------------------------------------------------- C9
\* C9: the hook gate is a latch: it starts true exactly when no hook is
\* configured or the Requestor is session-less; it becomes true only when the
\* session jar holds the configured cookie; once true it stays true, the
\* session jar is never replaced and every session-affine request uses it.
C9_HookLatch ==
    /\ \A p \in Sites :
          /\ polls[p].q.hook_ok
          /\ opts.session => (polls[p].sq.hook_ok <=> opts.sess_hook = NoHook)
    /\ [][\A p \in Sites :
            /\ polls'[p].q.hook_ok
            /\ opts.session =>
                  /\ (~polls[p].sq.hook_ok /\ polls'[p].sq.hook_ok) => HookHeld(p)'
                  /\ polls[p].sq.hook_ok =>
                        /\ polls'[p].sq.hook_ok
                        /\ polls'[p].sq.sess_cook = polls[p].sq.sess_cook
                        /\ \A id \in DOMAIN polls'[p].reqs \ Ids(p) :
                              polls'[p].reqs[id].sess =>
                                  polls'[p].reqs[id].cjar = polls[p].sq.sess_cook]_vars

\* a configured hook was met and two session-affine requests were issued with
\* the jar that met it
C9_Witness ==
    \E p \in Sites :
        /\ opts.sess_hook # NoHook
        /\ polls[p].sq.hook_ok
        /\ \E i, j \in Ids(p) :
              /\ i < j
              /\ Req(p, i).sess /\ Req(p, j).sess
              /\ Req(p, i).cjar = polls[p].sq.sess_cook
              /\ Req(p, j).cjar = polls[p].sq.sess_cook

\* ------------------------------------------------------------------ C10
\* C10: once a redirect target is recorded, no step clears it and the summary
\* after every step is the alert line for the recorded target.
C10_RedirectSticky ==
    [][\A p \in Sites :
          polls[p].stats.redir_to # NoRedir =>
              /\ polls'[p].stats.redir_to # NoRedir
              /\ StatTrackerStr(polls'[p].stats) =
                     <<"!! Redirection to ", polls'[p].stats.redir_to>>]_vars

\* two hits are recorded, the first a redirect, the second (later than the
\* issue of the second request) a hit that counted cookies
C10_Witness ==
    \E p \in Sites :
        /\ polls[p].stats.redir_to # NoRedir
        /\ polls[p].stats.responses = 2
        /\ Len(polls[p].stats.gaps) = 2
        /\ Len(polls[p].reqs) >= 2
        /\ Req(p, 1).state = "fired" /\ Req(p, 2).state = "fired"
        /\ ~Req(p, 2).sess /\ Req(p, 2).by = "callback"
        /\ \E n \in DOMAIN polls[p].stats.cstats.no_sess :
              \E v \in DOMAIN polls[p].stats.cstats.no_sess[n] :
                  \E k \in DOMAIN polls[p].stats.cstats.no_sess[n][v] :
                      polls[p].stats.cstats.no_sess[n][v][k] > Req(p, 2).calldt

\* ------------------------------------------------------------------ C11
\* the hits the StatTracker of p has recorded a latency for, in order
Hits(p) == DOMAIN polls[p].stats.gaps

\* the earliest hit of p with the largest latency recorded so far
SlowestHit(p) ==
    LET g == polls[p].stats.gaps
    IN  CHOOSE i \in Hits(p) :
            \A j \in Hits(p) : g[j] < g[i] \/ (g[j] = g[i] /\ i <= j)

\* C11: after every hit the maximum-latency timestamp is the issue time of the
\* hit with the largest latency so far, the earliest one on a tie, for every
\* non-empty sequence of hits, sequences of zero latencies included.
C11_SlowestStartIsArgmax ==
    \A p \in Sites :
        Hits(p) # {} =>
            polls[p].stats.long_gap_dt = polls[p].stats.reqdts[SlowestHit(p)]

\* ------------------------------------------------------------------ C12
\* max(0, x)
Max0(x) == IF x > 0 THEN x ELSE 0

\* this step is a call of StatTracker.hit of p that records a latency
RecordsLatency(p) ==
    Len(polls'[p].stats.gaps) = Len(polls[p].stats.gaps) + 1

\* C12: the latency a hit records is max(0, now - issue time): never negative,
\* and 0 when the clock reads earlier than the issue time.
C12_LatencySaturates ==
    [][\A p \in Sites :
          RecordsLatency(p) =>
              LET k == Len(polls'[p].stats.gaps)
              IN  polls'[p].stats.gaps[k] = Max0(clock - polls'[p].stats.reqdts[k])]_vars

\* ------------------------------------------------------------------ C13
\* the number of timestamps of all the buckets of one CookieTracker mapping d
RECURSIVE Sightings(_)
Sightings(d) ==
    IF DOMAIN d = {} THEN 0
    ELSE LET n == CHOOSE x \in DOMAIN d : TRUE
             rest == [m \in DOMAIN d \ {n} |-> d[m]]
             RECURSIVE RowCount(_)
             RowCount(row) ==
                 IF DOMAIN row = {} THEN 0
                 ELSE LET v == CHOOSE x \in DOMAIN row : TRUE
                      IN  Len(row[v]) + RowCount([w \in DOMAIN row \ {v} |-> row[w]])
         IN  RowCount(d[n]) + Sightings(rest)

\* C13: a hit with the redirect flag set stores the Location header as the
\* redirect target and leaves the no-session and the session mapping of the
\* CookieTracker as they were, whatever jar is passed.
C13_RedirectHitFrame ==
    [][\A lag \in Lags, cook \in TrackerJars, sess \in BOOLEAN, headr \in HeaderSets :
          TrackerHit(clock - lag, cook, sess, headr, TRUE) =>
              /\ polls'[1].stats.cstats = polls[1].stats.cstats
              /\ "Location" \in DOMAIN headr =>
                    polls'[1].stats.redir_to = headr["Location"]]_vars

\* a redirect and an ordinary hit were recorded, one of them counted a cookie
C13_Witness ==
    /\ polls[1].stats.redir_to # NoRedir
    /\ Len(polls[1].stats.gaps) = 2
    /\ Sightings(polls[1].stats.cstats.no_sess) + Sightings(polls[1].stats.cstats.sess) = 1

\* ------------------------------------------------------------------ C14
\* C14: every session-less request is issued with a jar that is new and empty:
\* the jar is the jar of no other request, it is not the session-affine jar,
\* it was empty at issue time and stays empty until its own response arrives.
C14_SessionlessJarFresh ==
    \A p \in Sites : \A id \in Ids(p) :
        ~Req(p, id).sess =>
            /\ Req(p, id).jar_at_issue = {}
            /\ \A other \in Ids(p) \ {id} : Req(p, other).cjar # Req(p, id).cjar
            /\ polls[p].session => polls[p].sq.sess_cook # Req(p, id).cjar
            /\ Req(p, id).state = "inflight" => polls[p].jars[Req(p, id).cjar] = {}

\* a session-less poll was answered with a cookie and the next session-less
\* poll is in flight, next to a session-affine jar that holds a cookie
C14_Witness ==
    \E p \in Sites : \E id, next \in Ids(p) :
        /\ polls[p].session
        /\ ~Req(p, id).sess /\ Req(p, id).state = "fired"
        /\ polls[p].jars[Req(p, id).cjar] # {}
        /\ ~Req(p, next).sess /\ Req(p, next).state = "inflight"
        /\ Req(p, next).calldt >= Req(p, id).calldt /\ next > id
        /\ polls[p].jars[polls[p].sq.sess_cook] # {}

\* ------------------------------------------------------------------ C15
\* the (name, value) buckets of one CookieTracker mapping d
Buckets(d) == UNION {{<<n, v>> : v \in DOMAIN d[n]} : n \in DOMAIN d}

\* the timestamps of bucket b of d, none when d has no such bucket
Bucket(d, b) == IF b \in Buckets(d) THEN d[b[1]][b[2]] ELSE <<>>

IsPrefix(s, t) == Len(s) <= Len(t) /\ \A i \in DOMAIN s : s[i] = t[i]

NonDecreasing(s) == \A i, j \in DOMAIN s : i <= j => s[i] <= s[j]

\* C15: the CookieTracker is append-only: no step removes a name, a value or a
\* timestamp of either mapping; CookieTracker.hit with a jar appends exactly one
\* timestamp to the bucket of every cookie of the jar, in the mapping chosen by
\* sess, and touches no other bucket; a hit without a jar changes nothing; the
\* clock never going back, every bucket is non-empty and non-decreasing.
\* (A hit that is not a redirect always records a latency, and its reqdt is the
\* last entry of the history field reqdts.)
C15_CookieTrackerAppendOnly ==
    [][LET old == polls[1].stats.cstats
           new == polls'[1].stats.cstats
       IN  /\ \A m \in {"no_sess", "sess"} :
                 /\ DOMAIN old[m] \subseteq DOMAIN new[m]
                 /\ \A b \in Buckets(old[m]) :
                       /\ b \in Buckets(new[m])
                       /\ IsPrefix(Bucket(old[m], b), Bucket(new[m], b))
                 /\ \A n \in DOMAIN new[m] : DOMAIN new[m][n] # {}
                 /\ \A b \in Buckets(new[m]) :
                       /\ Bucket(new[m], b) # <<>>
                       /\ NonDecreasing(Bucket(new[m], b))
           /\ \A cook \in TrackerJars, sess \in BOOLEAN, headr \in HeaderSets :
                 (/\ RecordsLatency(1)
                  /\ TrackerHit(polls'[1].stats.reqdts[Len(polls'[1].stats.reqdts)],
                                cook, sess, headr, FALSE)) =>
                     LET hit == IF sess THEN "sess" ELSE "no_sess"
                         other == IF sess THEN "no_sess" ELSE "sess"
                         jar == IF cook = NoCook THEN {} ELSE cook[1]
                         mine == {<<c.name, c.value>> : c \in jar}
                     IN  /\ new[other] = old[other]
                         /\ Buckets(new[hit]) = Buckets(old[hit]) \cup mine
                         /\ \A b \in mine :
                               Bucket(new[hit], b) = Append(Bucket(old[hit], b), clock)
                         /\ \A b \in Buckets(old[hit]) \ mine :
                               Bucket(new[hit], b) = Bucket(old[hit], b)
                         /\ cook = NoCook => new = old]_vars

\* a jar of two cookies was counted twice, at different times, in one mapping
C15_Witness ==
    \E m \in {"no_sess", "sess"} :
        LET d == polls[1].stats.cstats[m]
        IN  /\ Cardinality(Buckets(d)) = 2
            /\ \A b \in Buckets(d) : Len(Bucket(d, b)) = 2 /\ Bucket(d, b)[1] < Bucket(d, b)[2]

\* ------------------------------------------------------------------ C16
\* C16: after any sequence of StatTracker.hit calls, redirect hits with any
\* headers included, the responses count is the number of recorded latencies.
C16_ResponsesEqualLatencies ==
    \A p \in Sites : polls[p].stats.responses = Len(polls[p].stats.gaps)

\* ------------------------------------------------------------------ C17
\* the requests of p that this step issues
Issued(p) == (Len(polls[p].reqs) + 1)..Len(polls'[p].reqs)

\* the path of p whose last call was at last is found stalled by a sweep now
Stalled(last) == last # NoTime /\ Seconds(clock - last) > TIMEOUT

\* the for loop of run_timeouts gets as far as p (no earlier PollWindow raises)
SweepReaches(p) == \A q \in 1..(p - 1) : polls[q].slast_call # NoTime

\* C17: the request a sweep issues for a stalled request is a session-less one,
\* whether the stall is on the session-less or on the session-affine path: a
\* sweep issues one session-less request for every path it finds stalled.
C17_SweepReschedulesSessionless ==
    [][SweepStep =>
          \A p \in Sites :
              /\ \A id \in Issued(p) :
                    /\ ~polls'[p].reqs[id].sess
                    /\ polls'[p].reqs[id].state = "inflight"
                    /\ polls'[p].reqs[id].calldt = clock
              /\ Cardinality(Issued(p)) =
                    IF SweepReaches(p)
                    THEN (IF Stalled(polls[p].last_call) THEN 1 ELSE 0)
                         + (IF Stalled(polls[p].slast_call) THEN 1 ELSE 0)
                    ELSE 0]_vars

\* a sweep has found the session-affine request stalled and nothing but
\* session-less requests are in flight since
C17_Witness ==
    \E p \in Sites : \E id, new \in Ids(p) :
        /\ polls[p].session
        /\ Req(p, id).sess /\ Req(p, id).state = "cancelled" /\ Req(p, id).sw_hits = 1
        /\ ~Req(p, new).sess /\ Req(p, new).by = "sweep" /\ Req(p, new).state = "inflight"
        /\ Outstanding(p, TRUE) = {}
        /\ Cardinality(Outstanding(p, FALSE)) = 2

\* ------------------------------------------------------------------ C18
\* C18: one stalled request is recorded as a timeout-derived hit at most once:
\* once a sweep has cancelled it and recorded a miss for it, no later sweep
\* records a hit or issues a request on its account, on either path.
C18_StallRecordedOnce ==
    \A p \in Sites : \A id \in Ids(p) : Req(p, id).sw_hits <= 1

\* ------------------------------------------------------------------ C19
\* the age in whole seconds of request id of p
Age(p, id) == clock - Req(p, id).calldt

\* the latencies of p that this step records
Recorded(p) == (Len(polls[p].stats.gaps) + 1)..Len(polls'[p].stats.gaps)

\* C19: a sweep cancels a request only when its age in whole seconds is
\* strictly greater than TIMEOUT: a request of age at most TIMEOUT stays in
\* flight and no hit is recorded for it, and every latency recorded by a sweep
\* is strictly greater than TIMEOUT.
C19_CancelOnlyAboveTimeout ==
    [][SweepStep =>
          \A p \in Sites :
              /\ \A id \in Ids(p) :
                    /\ (Req(p, id).state = "inflight" /\ Age(p, id) <= TIMEOUT) =>
                          polls'[p].reqs[id] = Req(p, id)
                    /\ polls'[p].reqs[id] # Req(p, id) => Age(p, id) > TIMEOUT
              /\ \A k \in Recorded(p) : polls'[p].stats.gaps[k] > TIMEOUT]_vars

\* a sweep has just run: it cancelled a request and left a request of age
\* TIMEOUT in flight
C19_Witness ==
    \E p \in Sites : \E old, young \in Ids(p) :
        /\ sweep = clock + TIMEOUT
        /\ Req(p, old).state = "cancelled" /\ Req(p, old).sw_hits >= 1
        /\ Req(p, young).state = "inflight" /\ Age(p, young) = TIMEOUT
        /\ polls[p].stats.responses = Len(polls[p].stats.gaps)
        /\ \A k \in DOMAIN polls[p].stats.gaps : polls[p].stats.gaps[k] > TIMEOUT

====
